---- MODULE Spec2Model ----
(***************************************************************************)
(* A model of the thread-safe allocator of src/v1/my_malloc.c: the        *)
(* address-ordered free list with coalescing (insert_free_block), the      *)
(* best-fit search with split (best_fit_search), the locking variant       *)
(* (ts_malloc_lock / ts_free_lock) and the thread-local variant            *)
(* (ts_malloc_nolock / ts_free_nolock).                                    *)
(*                                                                         *)
(* Memory is a map from header addresses to block_t records; pointers are  *)
(* integers, NULL is 0.  Every thread runs one call at a time; pc[t] is    *)
(* its position inside the call.  A call is cut into steps at the points   *)
(* where another thread can observe a difference: lock and unlock, the     *)
(* entry and the exit of sbrk, and the list operation in between.          *)
(***************************************************************************)
EXTENDS Integers, Sequences, FiniteSets, TLC

\* ------------------------------------------------------------------ bounds
NumThreads == 2
MaxSize == 2
HeapBytes == 53

\* --------------------------------------------------------------- constants
META_SIZE == 16
SizeBits == 8
NULL == 0
SBRK_FAIL == -1
HeapBase == 16

Threads == 1 .. NumThreads
Sizes == 0 .. MaxSize
NoThread == 0
SIZE_MOD == 2 ^ SizeBits
HeapLimit == HeapBase + HeapBytes

\* size_t arithmetic is modulo 2^w
SizeT(x) == x % SIZE_MOD

VARIABLES
  mode,              \* which pair of entry points the process uses
  mem,               \* header address -> block_t
  brk,               \* the heap break
  lock_free_list,    \* head of the shared list
  lock_mutex,        \* holder of lock_mutex, or NoThread
  nolock_free_list,  \* thread -> head of its thread-local list
  sbrk_mutex,        \* holder of sbrk_mutex, or NoThread
  pc,                \* thread -> position in its current call
  op,                \* thread -> the entry point it called last
  arg,               \* thread -> the argument of that call (size or ptr)
  block,             \* thread -> the local variable block
  sbrk_old,          \* thread -> the break sbrk read on entry
  ret,               \* thread -> the value its last call returned
  live,              \* the pointers handed out and not yet freed
  growLog            \* the blocks obtained from sbrk, in order

vars == <<mode, mem, brk, lock_free_list, lock_mutex, nolock_free_list,
          sbrk_mutex, pc, op, arg, block, sbrk_old, ret, live, growLog>>

heap == <<mem, brk, lock_free_list, nolock_free_list>>
ghost == <<growLog>>

\* ------------------------------------------------------------ block_t
block_t(s, n) == [size |-> s, next |-> n]

\* a store through a block_t pointer
Store(m, a, r) == [x \in (DOMAIN m) \cup {a} |-> IF x = a THEN r ELSE m[x]]

\* the header at a has been absorbed into the block before it: its bytes are
\* payload from now on, and payload contents are not part of the model
Absorb(m, a) == [x \in (DOMAIN m) \ {a} |-> m[x]]

\* the longest walk an acyclic list in m can take
Fuel(m) == Cardinality(DOMAIN m) + 1

HANG == <<"hang">>

\* ------------------------------------------------- insert_free_block
\* the positional walk: while (curr != NULL && curr < block)
WalkToHead(m, curr, prev, blk, fuel) == <<curr, prev>>
RECURSIVE Walk(_, _, _, _, _)
Walk(m, curr, prev, blk, fuel) ==
  IF curr # NULL /\ curr < blk
  THEN IF fuel = 0 THEN HANG
       ELSE Walk(m, m[curr].next, curr, blk, fuel - 1)
  ELSE <<curr, prev>>

\* block->next = curr; prev->next = block or *head = block
Link(m, prev, curr, blk) ==
  LET m1 == [m EXCEPT ![blk].next = curr]
  IN IF prev # NULL THEN [m1 EXCEPT ![prev].next = blk] ELSE m1

\* coalesce with the next free block if adjacent
MergeNextNoHeader(m, blk) ==
  LET nx == m[blk].next
  IN IF nx # NULL /\ blk + META_SIZE + m[blk].size = nx
     THEN Absorb([m EXCEPT ![blk] = block_t(SizeT(m[blk].size + m[nx].size),
                                            m[nx].next)], nx)
     ELSE m
MergeNextNever(m, blk) == m
MergeNext(m, blk) ==
  LET nx == m[blk].next
  IN IF nx # NULL /\ blk + META_SIZE + m[blk].size = nx
     THEN Absorb([m EXCEPT ![blk] = block_t(SizeT(m[blk].size + META_SIZE + m[nx].size),
                                            m[nx].next)], nx)
     ELSE m

\* coalesce with the previous free block if adjacent
MergePrevNoUnlink(m, prev, blk) ==
  IF prev # NULL /\ prev + META_SIZE + m[prev].size = blk
  THEN [m EXCEPT ![prev].size = SizeT(m[prev].size + META_SIZE + m[blk].size)]
  ELSE m
MergePrevNever(m, prev, blk) == m
MergePrev(m, prev, blk) ==
  IF prev # NULL /\ prev + META_SIZE + m[prev].size = blk
  THEN Absorb([m EXCEPT ![prev] = block_t(SizeT(m[prev].size + META_SIZE + m[blk].size),
                                          m[blk].next)], blk)
  ELSE m

insert_free_block(head, m, blk) ==
  LET w == Walk(m, head, NULL, blk, Fuel(m))
  IN IF w = HANG
     THEN [hang |-> TRUE, head |-> head, mem |-> m]
     ELSE LET curr == w[1]
              prev == w[2]
              m1 == Link(m, prev, curr, blk)
              m2 == MergeNext(m1, blk)
              m3 == MergePrev(m2, prev, blk)
          IN [hang |-> FALSE,
              head |-> IF prev # NULL THEN head ELSE blk,
              mem |-> m3]

\* --------------------------------------------------- best_fit_search
\* the scan: returns <<best, best_prev>>
RECURSIVE ScanLastTie(_, _, _, _, _, _, _)
ScanLastTie(m, curr, prev, best, best_prev, size, fuel) ==
  IF curr = NULL THEN <<best, best_prev>>
  ELSE IF fuel = 0 THEN HANG
  ELSE IF m[curr].size >= size
       THEN LET better == best = NULL \/ m[curr].size <= m[best].size
                b == IF better THEN curr ELSE best
                bp == IF better THEN prev ELSE best_prev
            IN IF m[b].size = size
               THEN <<b, bp>>
               ELSE ScanLastTie(m, m[curr].next, curr, b, bp, size, fuel - 1)
       ELSE ScanLastTie(m, m[curr].next, curr, best, best_prev, size, fuel - 1)

RECURSIVE Scan(_, _, _, _, _, _, _)
Scan(m, curr, prev, best, best_prev, size, fuel) ==
  IF curr = NULL THEN <<best, best_prev>>
  ELSE IF fuel = 0 THEN HANG
  ELSE IF m[curr].size >= size
       THEN LET better == best = NULL \/ m[curr].size < m[best].size
                b == IF better THEN curr ELSE best
                bp == IF better THEN prev ELSE best_prev
            IN IF m[b].size = size
               THEN <<b, bp>>
               ELSE Scan(m, m[curr].next, curr, b, bp, size, fuel - 1)
       ELSE Scan(m, m[curr].next, curr, best, best_prev, size, fuel - 1)

\* the split test: best->size >= size + META_SIZE + 1
SplitsAtHeader(bsize, size) == bsize >= SizeT(size + META_SIZE)
SplitsAlways(bsize, size) == bsize >= size + 1
Splits(bsize, size) == bsize >= SizeT(size + META_SIZE + 1)

\* the size of the remainder: best->size - size - META_SIZE
RemainderSizeNoHeader(bsize, size) == SizeT(bsize - size)
RemainderSize(bsize, size) == SizeT(bsize - size - META_SIZE)

best_fit_search(head, m, size) ==
  LET s == Scan(m, head, NULL, NULL, NULL, size, Fuel(m))
  IN IF s = HANG
     THEN [hang |-> TRUE, head |-> head, mem |-> m, block |-> NULL]
     ELSE LET best == s[1]
              best_prev == s[2]
          IN IF best = NULL
             THEN [hang |-> FALSE, head |-> head, mem |-> m, block |-> NULL]
             ELSE LET \* remove the chosen block from the free list
                      m1 == IF best_prev # NULL
                            THEN [m EXCEPT ![best_prev].next = m[best].next]
                            ELSE m
                      h1 == IF best_prev # NULL THEN head ELSE m[best].next
                      m2 == [m1 EXCEPT ![best].next = NULL]
                  IN IF Splits(m2[best].size, size)
                     THEN LET remainder == best + META_SIZE + size
                              m3 == Store(m2, remainder,
                                      block_t(RemainderSize(m2[best].size, size), NULL))
                              m4 == [m3 EXCEPT ![best].size = size]
                              r == insert_free_block(h1, m4, remainder)
                          IN [hang |-> r.hang, head |-> r.head, mem |-> r.mem,
                              block |-> best]
                     ELSE [hang |-> FALSE, head |-> h1, mem |-> m2, block |-> best]

\* ------------------------------------------------------------- primitives
\* pthread_mutex_lock returns once the mutex has no holder
CanLockAlways(mutex) == TRUE
CanLock(mutex) == mutex = NoThread

\* pthread_mutex_unlock: the mutex has no holder afterwards
HoldMutex(mutex) == mutex
pthread_mutex_unlock(mutex) == NoThread

\* the argument of sbrk is an intptr_t: a size_t of 2^(w-1) or more arrives
\* as a negative increment
IntPtrT(x) == IF x >= SIZE_MOD \div 2 THEN x - SIZE_MOD ELSE x

\* sbrk(incr), cut in two: the entry reads the break, the exit moves it.
\* cur is the break at the exit, old the break read at the entry. The break
\* moves neither past the limit of the process nor below the start of the heap.
sbrk(cur, old, incr) ==
  IF old + incr > HeapLimit \/ old + incr < HeapBase
  THEN [ret |-> SBRK_FAIL, brk |-> cur]
  ELSE [ret |-> old, brk |-> old + incr]

\* the argument the allocate calls pass to sbrk: META_SIZE + size
GrowBytesNoHeader(size) == IntPtrT(SizeT(size))
GrowBytes(size) == IntPtrT(SizeT(META_SIZE + size))

\* the size test: if (size == 0) return NULL
IsZeroSizeNever(size) == FALSE
IsZeroSize(size) == size = 0

\* the failure test: block == (void *)-1
GrowFailedNever(blk) == FALSE
GrowFailed(blk) == blk = SBRK_FAIL

\* the instance of the __thread variable nolock_free_list that thread t sees
TLSShared(t) == 1
TLS(t) == t

\* (void *)(block + 1) and (block_t *)ptr - 1
Payload(blk) == blk + META_SIZE
Header(ptr) == ptr - META_SIZE

LockModes == {"lock", "mixed"}
NolockModes == {"nolock", "mixed"}

\* a live pointer, with the variant that handed it out
LiveRec(p, api) == [ptr |-> p, api |-> api]
NoRec == [ptr |-> NULL, api |-> "none"]

\* ------------------------------------------------------------------ Init
InitCommon ==
  /\ mem = << >>
  /\ brk = HeapBase
  /\ lock_free_list = NULL
  /\ lock_mutex = NoThread
  /\ nolock_free_list = [t \in Threads |-> NULL]
  /\ sbrk_mutex = NoThread
  /\ pc = [t \in Threads |-> "idle"]
  /\ op = [t \in Threads |-> "none"]
  /\ arg = [t \in Threads |-> 0]
  /\ block = [t \in Threads |-> NULL]
  /\ sbrk_old = [t \in Threads |-> NULL]
  /\ ret = [t \in Threads |-> NULL]
  /\ live = {}
  /\ growLog = << >>

Init == mode \in {"lock", "nolock"} /\ InitCommon

\* the shape of the state
Labels ==
  {"idle", "done", "hung",
   "ml_lock", "ml_search", "ml_hit", "ml_sbrk", "ml_insbrk", "ml_check",
   "fl_lock", "fl_insert", "fl_unlock",
   "nl_search", "nl_lock", "nl_sbrk", "nl_insbrk", "nl_unlock", "nl_check",
   "nf_insert"}

TypeOK ==
  /\ mode \in {"lock", "nolock", "mixed"}
  /\ DOMAIN mem \subseteq HeapBase .. HeapLimit
  /\ \A a \in DOMAIN mem :
       mem[a].size \in 0 .. SIZE_MOD - 1 /\ mem[a].next \in {NULL} \cup DOMAIN mem
  /\ brk \in HeapBase .. HeapLimit
  /\ lock_free_list \in {NULL} \cup DOMAIN mem
  /\ lock_mutex \in {NoThread} \cup Threads
  /\ nolock_free_list \in [Threads -> {NULL} \cup DOMAIN mem]
  /\ sbrk_mutex \in {NoThread} \cup Threads
  /\ pc \in [Threads -> Labels]
  /\ op \in [Threads -> {"none"} \cup {"ts_malloc_lock", "ts_free_lock",
                                      "ts_malloc_nolock", "ts_free_nolock"}]
  /\ arg \in [Threads -> (0 .. HeapLimit) \cup (0 .. SIZE_MOD - 1)]
  /\ block \in [Threads -> {NULL, SBRK_FAIL} \cup (HeapBase .. HeapLimit)]
  /\ sbrk_old \in [Threads -> {NULL} \cup (HeapBase .. HeapLimit)]
  /\ ret \in [Threads -> {NULL} \cup (HeapBase .. HeapLimit)]
  /\ \A r \in live : Header(r.ptr) \in DOMAIN mem /\ r.api \in {"lock", "nolock"}
  /\ \A i \in 1 .. Len(growLog) : growLog[i].addr \in HeapBase .. HeapLimit

\* ------------------------------------------------------ ts_malloc_lock
MallocLockCall(t, size) ==
  /\ mode \in LockModes
  /\ pc[t] = "idle"
  /\ op' = [op EXCEPT ![t] = "ts_malloc_lock"]
  /\ arg' = [arg EXCEPT ![t] = size]
  /\ IF IsZeroSize(size)
     THEN /\ ret' = [ret EXCEPT ![t] = NULL]
          /\ pc' = [pc EXCEPT ![t] = "done"]
     ELSE /\ ret' = ret
          /\ pc' = [pc EXCEPT ![t] = "ml_lock"]
  /\ UNCHANGED <<mode, heap, lock_mutex, sbrk_mutex, block, sbrk_old, live, ghost>>

MallocLockAcquire(t) ==
  /\ pc[t] = "ml_lock"
  /\ CanLock(lock_mutex)
  /\ lock_mutex' = t
  /\ pc' = [pc EXCEPT ![t] = "ml_search"]
  /\ UNCHANGED <<mode, heap, sbrk_mutex, op, arg, block, sbrk_old, ret, live, ghost>>

MallocLockSearch(t) ==
  /\ pc[t] = "ml_search"
  /\ LET r == best_fit_search(lock_free_list, mem, arg[t])
     IN IF r.hang
        THEN /\ pc' = [pc EXCEPT ![t] = "hung"]
             /\ UNCHANGED <<mem, lock_free_list, block>>
        ELSE /\ mem' = r.mem
             /\ lock_free_list' = r.head
             /\ block' = [block EXCEPT ![t] = r.block]
             /\ pc' = [pc EXCEPT ![t] = IF r.block # NULL THEN "ml_hit" ELSE "ml_sbrk"]
  /\ UNCHANGED <<mode, brk, lock_mutex, nolock_free_list, sbrk_mutex, op, arg,
                 sbrk_old, ret, live, ghost>>

MallocLockHit(t) ==
  /\ pc[t] = "ml_hit"
  /\ lock_mutex' = pthread_mutex_unlock(lock_mutex)
  /\ ret' = [ret EXCEPT ![t] = Payload(block[t])]
  /\ live' = live \cup {LiveRec(Payload(block[t]), "lock")}
  /\ pc' = [pc EXCEPT ![t] = "done"]
  /\ UNCHANGED <<mode, heap, sbrk_mutex, op, arg, block, sbrk_old, ghost>>

MallocLockSbrkEnter(t) ==
  /\ pc[t] = "ml_sbrk"
  /\ sbrk_old' = [sbrk_old EXCEPT ![t] = brk]
  /\ pc' = [pc EXCEPT ![t] = "ml_insbrk"]
  /\ UNCHANGED <<mode, heap, lock_mutex, sbrk_mutex, op, arg, block, ret, live, ghost>>

MallocLockSbrkExit(t) ==
  /\ pc[t] = "ml_insbrk"
  /\ LET r == sbrk(brk, sbrk_old[t], GrowBytes(arg[t]))
     IN /\ brk' = r.brk
        /\ block' = [block EXCEPT ![t] = r.ret]
  /\ sbrk_old' = [sbrk_old EXCEPT ![t] = NULL]
  /\ pc' = [pc EXCEPT ![t] = "ml_check"]
  /\ UNCHANGED <<mode, mem, lock_free_list, nolock_free_list, lock_mutex,
                 sbrk_mutex, op, arg, ret, live, ghost>>

MallocLockGrown(t) ==
  /\ pc[t] = "ml_check"
  /\ IF GrowFailed(block[t])
     THEN /\ ret' = [ret EXCEPT ![t] = NULL]
          /\ UNCHANGED <<mem, live, growLog>>
     ELSE /\ mem' = Store(mem, block[t], block_t(arg[t], NULL))
          /\ ret' = [ret EXCEPT ![t] = Payload(block[t])]
          /\ live' = live \cup {LiveRec(Payload(block[t]), "lock")}
          /\ growLog' = Append(growLog, [addr |-> block[t], size |-> arg[t]])
  /\ lock_mutex' = pthread_mutex_unlock(lock_mutex)
  /\ pc' = [pc EXCEPT ![t] = "done"]
  /\ UNCHANGED <<mode, brk, lock_free_list, nolock_free_list, sbrk_mutex, op,
                 arg, block, sbrk_old>>

\* -------------------------------------------------------- ts_free_lock
FreeLockCall(t, r) ==
  /\ mode \in LockModes
  /\ pc[t] = "idle"
  /\ r = NoRec \/ (r \in live /\ r.api = "lock")
  /\ op' = [op EXCEPT ![t] = "ts_free_lock"]
  /\ arg' = [arg EXCEPT ![t] = r.ptr]
  /\ IF r.ptr = NULL
     THEN /\ pc' = [pc EXCEPT ![t] = "done"]
          /\ UNCHANGED <<block, live>>
     ELSE /\ block' = [block EXCEPT ![t] = Header(r.ptr)]
          /\ live' = live \ {r}
          /\ pc' = [pc EXCEPT ![t] = "fl_lock"]
  /\ UNCHANGED <<mode, heap, lock_mutex, sbrk_mutex, sbrk_old, ret, ghost>>

FreeLockAcquire(t) ==
  /\ pc[t] = "fl_lock"
  /\ CanLock(lock_mutex)
  /\ lock_mutex' = t
  /\ pc' = [pc EXCEPT ![t] = "fl_insert"]
  /\ UNCHANGED <<mode, heap, sbrk_mutex, op, arg, block, sbrk_old, ret, live, ghost>>

FreeLockInsert(t) ==
  /\ pc[t] = "fl_insert"
  /\ LET r == insert_free_block(lock_free_list, mem, block[t])
     IN IF r.hang
        THEN /\ pc' = [pc EXCEPT ![t] = "hung"]
             /\ UNCHANGED <<mem, lock_free_list>>
        ELSE /\ mem' = r.mem
             /\ lock_free_list' = r.head
             /\ pc' = [pc EXCEPT ![t] = "fl_unlock"]
  /\ UNCHANGED <<mode, brk, lock_mutex, nolock_free_list, sbrk_mutex, op, arg,
                 block, sbrk_old, ret, live, ghost>>

FreeLockUnlock(t) ==
  /\ pc[t] = "fl_unlock"
  /\ lock_mutex' = pthread_mutex_unlock(lock_mutex)
  /\ pc' = [pc EXCEPT ![t] = "done"]
  /\ UNCHANGED <<mode, heap, sbrk_mutex, op, arg, block, sbrk_old, ret, live, ghost>>

\* ---------------------------------------------------- ts_malloc_nolock
MallocNolockCall(t, size) ==
  /\ mode \in NolockModes
  /\ pc[t] = "idle"
  /\ op' = [op EXCEPT ![t] = "ts_malloc_nolock"]
  /\ arg' = [arg EXCEPT ![t] = size]
  /\ IF IsZeroSize(size)
     THEN /\ ret' = [ret EXCEPT ![t] = NULL]
          /\ pc' = [pc EXCEPT ![t] = "done"]
     ELSE /\ ret' = ret
          /\ pc' = [pc EXCEPT ![t] = "nl_search"]
  /\ UNCHANGED <<mode, heap, lock_mutex, sbrk_mutex, block, sbrk_old, live, ghost>>

MallocNolockSearch(t) ==
  /\ pc[t] = "nl_search"
  /\ LET r == best_fit_search(nolock_free_list[TLS(t)], mem, arg[t])
     IN IF r.hang
        THEN /\ pc' = [pc EXCEPT ![t] = "hung"]
             /\ UNCHANGED <<mem, nolock_free_list, block, ret, live>>
        ELSE /\ mem' = r.mem
             /\ nolock_free_list' = [nolock_free_list EXCEPT ![TLS(t)] = r.head]
             /\ block' = [block EXCEPT ![t] = r.block]
             /\ IF r.block # NULL
                THEN /\ ret' = [ret EXCEPT ![t] = Payload(r.block)]
                     /\ live' = live \cup {LiveRec(Payload(r.block), "nolock")}
                     /\ pc' = [pc EXCEPT ![t] = "done"]
                ELSE /\ pc' = [pc EXCEPT ![t] = "nl_lock"]
                     /\ UNCHANGED <<ret, live>>
  /\ UNCHANGED <<mode, brk, lock_free_list, lock_mutex, sbrk_mutex, op, arg,
                 sbrk_old, ghost>>

MallocNolockAcquire(t) ==
  /\ pc[t] = "nl_lock"
  /\ CanLock(sbrk_mutex)
  /\ sbrk_mutex' = t
  /\ pc' = [pc EXCEPT ![t] = "nl_sbrk"]
  /\ UNCHANGED <<mode, heap, lock_mutex, op, arg, block, sbrk_old, ret, live, ghost>>

MallocNolockSbrkEnter(t) ==
  /\ pc[t] = "nl_sbrk"
  /\ sbrk_old' = [sbrk_old EXCEPT ![t] = brk]
  /\ pc' = [pc EXCEPT ![t] = "nl_insbrk"]
  /\ UNCHANGED <<mode, heap, lock_mutex, sbrk_mutex, op, arg, block, ret, live, ghost>>

MallocNolockSbrkExit(t) ==
  /\ pc[t] = "nl_insbrk"
  /\ LET r == sbrk(brk, sbrk_old[t], GrowBytes(arg[t]))
     IN /\ brk' = r.brk
        /\ block' = [block EXCEPT ![t] = r.ret]
  /\ sbrk_old' = [sbrk_old EXCEPT ![t] = NULL]
  /\ pc' = [pc EXCEPT ![t] = "nl_unlock"]
  /\ UNCHANGED <<mode, mem, lock_free_list, nolock_free_list, lock_mutex,
                 sbrk_mutex, op, arg, ret, live, ghost>>

MallocNolockUnlock(t) ==
  /\ pc[t] = "nl_unlock"
  /\ sbrk_mutex' = pthread_mutex_unlock(sbrk_mutex)
  /\ pc' = [pc EXCEPT ![t] = "nl_check"]
  /\ UNCHANGED <<mode, heap, lock_mutex, op, arg, block, sbrk_old, ret, live, ghost>>

MallocNolockGrown(t) ==
  /\ pc[t] = "nl_check"
  /\ IF GrowFailed(block[t])
     THEN /\ ret' = [ret EXCEPT ![t] = NULL]
          /\ UNCHANGED <<mem, live, growLog>>
     ELSE /\ mem' = Store(mem, block[t], block_t(arg[t], NULL))
          /\ ret' = [ret EXCEPT ![t] = Payload(block[t])]
          /\ live' = live \cup {LiveRec(Payload(block[t]), "nolock")}
          /\ growLog' = Append(growLog, [addr |-> block[t], size |-> arg[t]])
  /\ pc' = [pc EXCEPT ![t] = "done"]
  /\ UNCHANGED <<mode, brk, lock_free_list, nolock_free_list, lock_mutex,
                 sbrk_mutex, op, arg, block, sbrk_old>>

\* ------------------------------------------------------ ts_free_nolock
FreeNolockCall(t, r) ==
  /\ mode \in NolockModes
  /\ pc[t] = "idle"
  /\ r = NoRec \/ (r \in live /\ r.api = "nolock")
  /\ op' = [op EXCEPT ![t] = "ts_free_nolock"]
  /\ arg' = [arg EXCEPT ![t] = r.ptr]
  /\ IF r.ptr = NULL
     THEN /\ pc' = [pc EXCEPT ![t] = "done"]
          /\ UNCHANGED <<block, live>>
     ELSE /\ block' = [block EXCEPT ![t] = Header(r.ptr)]
          /\ live' = live \ {r}
          /\ pc' = [pc EXCEPT ![t] = "nf_insert"]
  /\ UNCHANGED <<mode, heap, lock_mutex, sbrk_mutex, sbrk_old, ret, ghost>>

FreeNolockInsert(t) ==
  /\ pc[t] = "nf_insert"
  /\ LET r == insert_free_block(nolock_free_list[TLS(t)], mem, block[t])
     IN IF r.hang
        THEN /\ pc' = [pc EXCEPT ![t] = "hung"]
             /\ UNCHANGED <<mem, nolock_free_list>>
        ELSE /\ mem' = r.mem
             /\ nolock_free_list' = [nolock_free_list EXCEPT ![TLS(t)] = r.head]
             /\ pc' = [pc EXCEPT ![t] = "done"]
  /\ UNCHANGED <<mode, brk, lock_free_list, lock_mutex, sbrk_mutex, op, arg,
                 block, sbrk_old, ret, live, growLog>>

\* ------------------------------------------------------------------ Next
LockStep(t) ==
  \/ MallocLockAcquire(t)
  \/ MallocLockSearch(t)
  \/ MallocLockHit(t)
  \/ MallocLockSbrkEnter(t)
  \/ MallocLockSbrkExit(t)
  \/ MallocLockGrown(t)
  \/ FreeLockAcquire(t)
  \/ FreeLockInsert(t)
  \/ FreeLockUnlock(t)

NolockStep(t) ==
  \/ MallocNolockSearch(t)
  \/ MallocNolockAcquire(t)
  \/ MallocNolockSbrkEnter(t)
  \/ MallocNolockSbrkExit(t)
  \/ MallocNolockUnlock(t)
  \/ MallocNolockGrown(t)
  \/ FreeNolockInsert(t)

\* a thread entering one of the four entry points, with a size in S
CallWith(t, S) ==
  \/ \E size \in S : MallocLockCall(t, size)
  \/ \E r \in live \cup {NoRec} : FreeLockCall(t, r)
  \/ \E size \in S : MallocNolockCall(t, size)
  \/ \E r \in live \cup {NoRec} : FreeNolockCall(t, r)

Call(t) == CallWith(t, Sizes)

\* the caller takes the result; the locals of the call are gone
Return(t) ==
  /\ pc[t] = "done"
  /\ pc' = [pc EXCEPT ![t] = "idle"]
  /\ op' = [op EXCEPT ![t] = "none"]
  /\ arg' = [arg EXCEPT ![t] = 0]
  /\ block' = [block EXCEPT ![t] = NULL]
  /\ ret' = [ret EXCEPT ![t] = NULL]
  /\ UNCHANGED <<mode, heap, lock_mutex, sbrk_mutex, sbrk_old, live, ghost>>

\* a thread going on with the call it is in
Step(t) == LockStep(t) \/ NolockStep(t) \/ Return(t)

Next == \E t \in Threads : Call(t) \/ Step(t)

Spec == Init /\ [][Next]_vars

\* ================================================================ claims
Mallocs == {"ts_malloc_lock", "ts_malloc_nolock"}
Frees == {"ts_free_lock", "ts_free_nolock"}

\* thread t takes this step (every action moves the pc of its thread)
Stepped(t) == pc'[t] # pc[t]

\* thread t returns from an allocate call with a block in this step
ReturnsBlock(t) ==
  /\ Stepped(t)
  /\ pc'[t] = "done"
  /\ op'[t] \in Mallocs
  /\ ret'[t] # NULL

\* the bytes of the block whose header is at a: [a, a + META_SIZE + size)
BlockRange(m, a) == a .. (a + META_SIZE + m[a].size - 1)

LiveHeaders == {Header(r.ptr) : r \in live}

\* the headers of a list, in list order (cut at Fuel(m) on a cyclic list)
RECURSIVE ListFrom(_, _, _)
ListFrom(m, a, fuel) ==
  IF a = NULL \/ fuel = 0 THEN << >>
  ELSE <<a>> \o ListFrom(m, m[a].next, fuel - 1)

ListSeq(head) == ListFrom(mem, head, Fuel(mem))
ListSet(head) == {ListSeq(head)[i] : i \in 1 .. Len(ListSeq(head))}

\* ---- C1
LiveDisjoint ==
  \A a, b \in LiveHeaders :
    a # b => BlockRange(mem, a) \cap BlockRange(mem, b) = {}

\* a block that is handed out is not live already, and is apart from every
\* live block
FreshIssue ==
  \A t \in Threads :
    ReturnsBlock(t) =>
      /\ \A r \in live : r.ptr # ret'[t]
      /\ \A a \in LiveHeaders :
           BlockRange(mem', a) \cap BlockRange(mem', Header(ret'[t])) = {}

\* C1: in the locking variant and in the thread-local variant, for every
\* interleaving of allocate and free calls of the threads, the byte ranges
\* [header, header + META_SIZE + size) of the live blocks are pairwise
\* disjoint in every reachable state, and no block is handed out twice.
C1_LiveBlocksDisjoint == []LiveDisjoint /\ [][FreshIssue]_vars

\* two threads hold blocks that their concurrent allocate calls returned,
\* while a third block is live as well
C1_Witness ==
  /\ Cardinality(live) >= 3
  /\ \E t, u \in Threads :
       /\ t # u
       /\ pc[t] = "done" /\ op[t] \in Mallocs /\ ret[t] # NULL
       /\ pc[u] = "done" /\ op[u] \in Mallocs /\ ret[u] # NULL
       /\ ret[t] # ret[u]
       /\ {LiveRec(ret[t], mode), LiveRec(ret[u], mode)} \subseteq live

\* ---- C2
\* thread t finds a block in its free list in this step
SearchHit(t) ==
  /\ Stepped(t)
  /\ pc[t] \in {"ml_search", "nl_search"}
  /\ pc'[t] \in {"ml_hit", "done"}

\* the size field of the block that thread t is handed in this step
ReturnedSize(t) == mem'[Header(ret'[t])].size

\* the original statement: whatever the path, the size field of the block
\* handed out equals the requested size
SizeIsRequest == \A t \in Threads : ReturnsBlock(t) => ReturnedSize(t) = arg'[t]

C2_Original == [][SizeIsRequest]_vars

\* at the return the size field covers the request and exceeds it by at most
\* META_SIZE; it is the request itself on the growth path
SizeCoversRequest ==
  \A t \in Threads :
    ReturnsBlock(t) =>
      /\ arg'[t] <= ReturnedSize(t)
      /\ ReturnedSize(t) <= arg'[t] + META_SIZE
      /\ pc[t] \in {"ml_check", "nl_check"} => ReturnedSize(t) = arg'[t]

\* a block of size S taken from the list for a request N keeps S unless
\* S >= N + META_SIZE + 1, and then it is cut to N
HitSize ==
  \A t \in Threads :
    SearchHit(t) =>
      LET b == block'[t]
          S == mem[b].size
      IN /\ S >= arg[t]
         /\ mem'[b].size = IF S >= arg[t] + META_SIZE + 1 THEN arg[t] ELSE S

\* the size field of a block does not change while the block is live
LiveSizeKept ==
  \A r \in live \cap live' : mem'[Header(r.ptr)].size = mem[Header(r.ptr)].size

\* C2 (amended): for every successful allocate(size) with size > 0 the size
\* field of the returned block equals the requested size when the block comes
\* from heap growth or from a split; a block taken from the free list without
\* a split keeps its own size S, size <= S <= size + META_SIZE. In every case
\* the field keeps its value for as long as the block is live.
C2_SizeField == [][SizeCoversRequest /\ HitSize /\ LiveSizeKept]_vars

\* a call has returned an unsplit block larger than the request, another has
\* returned a block cut to the request by a split
C2_Witness ==
  \E t, u \in Threads :
    /\ t # u
    /\ pc[t] = "done" /\ op[t] \in Mallocs /\ ret[t] # NULL
    /\ LiveRec(ret[t], mode) \in live
    /\ mem[Header(ret[t])].size > arg[t]
    /\ pc[u] = "done" /\ op[u] \in Mallocs /\ ret[u] # NULL
    /\ LiveRec(ret[u], mode) \in live
    /\ mem[Header(ret[u])].size = arg[u]
    /\ \A i \in 1 .. Len(growLog) : growLog[i].addr # Header(ret[u])

\* ---- C3
\* thread t enters allocate(0) in this step
CallsZero(t) ==
  /\ pc[t] = "idle"
  /\ op'[t] \in Mallocs
  /\ arg'[t] = 0

ZeroStep ==
  \A t \in Threads :
    CallsZero(t) =>
      /\ pc'[t] = "done"
      /\ ret'[t] = NULL
      /\ UNCHANGED <<heap, lock_mutex, sbrk_mutex, live>>

ZeroIsNull ==
  \A t \in Threads :
    (op[t] \in Mallocs /\ arg[t] = 0) => (pc[t] = "done" /\ ret[t] = NULL)

\* C3: in both variants allocate(0) returns NULL in every reachable state; the
\* call leaves the free lists, every block header and the heap break as they
\* were and takes no lock.
C3_ZeroSize == []ZeroIsNull /\ [][ZeroStep]_vars

\* allocate(0) has returned while blocks are free and live and another thread
\* holds the lock
C3_Witness ==
  \E t, u \in Threads :
    /\ pc[t] = "done" /\ op[t] \in Mallocs /\ arg[t] = 0 /\ ret[t] = NULL
    /\ lock_mutex = u /\ u # t
    /\ lock_free_list # NULL
    /\ live # {}

\* ---- C4
\* thread t learns in this step that the heap could not grow
GrowFail(t) ==
  /\ Stepped(t)
  /\ pc[t] \in {"ml_check", "nl_check"}
  /\ block[t] = SBRK_FAIL

\* thread t takes a step of the path from the miss to the failed growth
MissStep(t) ==
  /\ Stepped(t)
  /\ \/ pc[t] \in {"ml_search", "nl_search"} /\ pc'[t] \in {"ml_sbrk", "nl_lock"}
     \/ pc[t] \in {"nl_lock", "ml_sbrk", "nl_sbrk", "nl_unlock"}
     \/ pc[t] \in {"ml_insbrk", "nl_insbrk"} /\ block'[t] = SBRK_FAIL

FailReturn ==
  \A t \in Threads :
    GrowFail(t) =>
      /\ pc'[t] = "done"
      /\ ret'[t] = NULL
      /\ UNCHANGED <<heap, live>>
      /\ lock_mutex' # t
      /\ sbrk_mutex' # t

MissQuiet == \A t \in Threads : MissStep(t) => UNCHANGED heap

\* C4: when allocate(size), size > 0, misses in the free list and sbrk fails,
\* the call returns NULL; no step of it, from the miss to the return, changes a
\* free list, a block header or the heap break, and the lock the call took is
\* released when it returns.
C4_GrowthFailure == [][FailReturn /\ MissQuiet]_vars

\* a call has failed to grow the heap while its free list held a block too
\* small for the request
C4_Witness ==
  \E t \in Threads :
    /\ pc[t] = "done" /\ op[t] \in Mallocs /\ arg[t] > 0
    /\ block[t] = SBRK_FAIL /\ ret[t] = NULL
    /\ lock_mutex # t /\ sbrk_mutex # t
    /\ lock_free_list # NULL \/ nolock_free_list[t] # NULL

\* ---- C5
\* the positions of the locking variant between lock and unlock: the search,
\* the growth, the header initialisation, the insert
LockCritical ==
  {"ml_search", "ml_hit", "ml_sbrk", "ml_insbrk", "ml_check", "fl_insert",
   "fl_unlock"}

InsideLock == {t \in Threads : pc[t] \in LockCritical}

LockHeld ==
  /\ \A t \in InsideLock : lock_mutex = t
  /\ Cardinality(InsideLock) <= 1

\* a step that changes the shared list, a header or the break is a step of
\* the thread that holds lock_mutex
SharedUnderLock ==
  (mode = "lock" /\ heap' # heap) =>
    (lock_mutex \in Threads /\ Stepped(lock_mutex))

\* C5: in the locking variant every access to the shared free list and every
\* call of sbrk is made by a thread that holds lock_mutex, and at most one
\* thread holds it: no thread is between lock and unlock while another is.
C5_LockCoversList == []LockHeld /\ [][SharedUnderLock]_vars

\* one thread is inside sbrk under the lock while another waits to insert a
\* block into the non-empty shared list
C5_Witness ==
  \E t, u \in Threads :
    /\ pc[t] = "ml_insbrk" /\ lock_mutex = t
    /\ pc[u] = "fl_lock"
    /\ lock_free_list # NULL

\* ---- C6
SbrkWindow == {"nl_sbrk", "nl_insbrk", "nl_unlock"}

\* C6: in the thread-local variant at most one thread is inside sbrk, and a
\* thread holds sbrk_mutex exactly between its lock just before the sbrk call
\* and its unlock just after it: never during the search, the header
\* initialisation or a step of ts_free_nolock.
C6_SbrkMutexWindow ==
  /\ Cardinality({t \in Threads : pc[t] = "nl_insbrk"}) <= 1
  /\ \A t \in Threads : sbrk_mutex = t <=> pc[t] \in SbrkWindow

\* one thread is inside sbrk while another inserts into its own list
C6_Witness ==
  \E t, u \in Threads :
    /\ pc[t] = "nl_insbrk" /\ sbrk_mutex = t
    /\ pc[u] = "nf_insert"
    /\ nolock_free_list[u] # NULL

\* ---- C7
\* the list of thread t as it lies in memory
ListImage(t) == [a \in ListSet(nolock_free_list[t]) |-> mem[a]]

\* the blocks a thread holds between a free call and its insert
InFlight == {block[t] : t \in {u \in Threads : pc[u] = "nf_insert"}}

\* a step of thread t leaves the list of every other thread as it is
OwnListOnly ==
  \A t, u \in Threads :
    (t # u /\ Stepped(t)) =>
      /\ nolock_free_list'[u] = nolock_free_list[u]
      /\ ListImage(u)' = ListImage(u)

\* every block is live, or held by a free call, or in the list of one thread
OneOwner ==
  mode = "nolock" =>
    \A a \in DOMAIN mem :
      Cardinality({t \in Threads : a \in ListSet(nolock_free_list[t])})
        + (IF a \in LiveHeaders THEN 1 ELSE 0)
        + (IF a \in InFlight THEN 1 ELSE 0) = 1

\* the block a search returns was in the list of the searching thread and in
\* no other list
HitInOwnList ==
  \A t \in Threads :
    (SearchHit(t) /\ pc[t] = "nl_search") =>
      /\ block'[t] \in ListSet(nolock_free_list[t])
      /\ \A u \in Threads \ {t} : block'[t] \notin ListSet(nolock_free_list[u])

\* C7: in the thread-local variant the list of a thread is changed only by
\* steps of that thread, every free block is in the list of exactly one
\* thread, and an allocate call of thread T never returns or splits a block of
\* another thread's list.
C7_ListsThreadLocal == []OneOwner /\ [][OwnListOnly /\ HitInOwnList]_vars

\* a call of one thread has missed and goes on to grow the heap although the
\* list of another thread holds a block that fits
C7_Witness ==
  \E t, u \in Threads :
    /\ t # u
    /\ pc[t] = "nl_lock"
    /\ \E a \in ListSet(nolock_free_list[u]) : mem[a].size >= arg[t]

\* ---- C8
\* thread t inserts the block of its free call in this step
FreeInserts(t) == Stepped(t) /\ pc[t] = "nf_insert" /\ pc'[t] = "done"

\* the freed block ends up inside a block of the list of the freeing thread
\* and every other list stays as it is
FreeIntoOwnList ==
  \A t \in Threads :
    FreeInserts(t) =>
      /\ \E a \in ListSet(nolock_free_list[t])' :
           BlockRange(mem, block[t]) \subseteq BlockRange(mem', a)
      /\ \A u \in Threads \ {t} :
           /\ nolock_free_list'[u] = nolock_free_list[u]
           /\ ListImage(u)' = ListImage(u)

\* the bytes of a block returned from a list were bytes of a block of the
\* list of the calling thread
HitFromOwnBytes ==
  \A t \in Threads :
    (SearchHit(t) /\ pc[t] = "nl_search") =>
      \E a \in ListSet(nolock_free_list[t]) :
        BlockRange(mem', block'[t]) \subseteq BlockRange(mem, a)

\* C8: in the thread-local variant a block that thread A allocated and thread
\* B frees is inserted (and coalesced) into the list of B and the list of A
\* stays as it is; from then on only an allocate call of B can return it.
C8_CrossThreadFree == [][FreeIntoOwnList /\ HitFromOwnBytes]_vars

\* thread A still stands at the return of the allocate call that gave it a
\* block, and thread B has already freed that block into its own list
C8_Witness ==
  \E A, B \in Threads :
    /\ A # B
    /\ pc[A] = "done" /\ op[A] = "ts_malloc_nolock" /\ ret[A] # NULL
    /\ pc[B] = "done" /\ op[B] = "ts_free_nolock" /\ arg[B] = ret[A]
    /\ Header(ret[A]) \in ListSet(nolock_free_list[B])
    /\ nolock_free_list[A] # NULL

\* ---- C10
AllIdle == \A t \in Threads : pc[t] = "idle"

\* three blocks came from sbrk, one right after the other
ThreeGrown ==
  /\ Len(growLog) = 3
  /\ growLog[2].addr = growLog[1].addr + META_SIZE + growLog[1].size
  /\ growLog[3].addr = growLog[2].addr + META_SIZE + growLog[2].size

\* the heads of the lists that hold a block
UsedLists ==
  {h \in {lock_free_list} \cup {nolock_free_list[t] : t \in Threads} : h # NULL}

\* all three are free again, in one list
AllFreedIntoOne ==
  /\ ThreeGrown
  /\ AllIdle
  /\ live = {}
  /\ Cardinality(UsedLists) = 1
  /\ Cardinality({t \in Threads : nolock_free_list[t] # NULL}) <= 1

\* the six orders in which three blocks can be freed
Orders == {o \in [1 .. 3 -> 1 .. 3] : \A i, j \in 1 .. 3 : o[i] = o[j] => i = j}

\* the three blocks as sbrk and the header initialisation left them
FreshThree ==
  [a \in {growLog[i].addr : i \in 1 .. 3} |->
     block_t((CHOOSE g \in {growLog[i] : i \in 1 .. 3} : g.addr = a).size, NULL)]

\* the list after the three blocks are inserted into an empty list in order o
FreeAll(o) ==
  LET r1 == insert_free_block(NULL, FreshThree, growLog[o[1]].addr)
      r2 == insert_free_block(r1.head, r1.mem, growLog[o[2]].addr)
  IN insert_free_block(r2.head, r2.mem, growLog[o[3]].addr)

\* the one block that spans the three
Spanning ==
  block_t(growLog[1].size + growLog[2].size + growLog[3].size + 2 * META_SIZE,
          NULL)

\* C10: when three blocks A, B, C come from sbrk back to back and all three
\* have been freed into one list that holds nothing else, whatever the order
\* of the frees, the list is one block at the header of A of size
\* size(A) + size(B) + size(C) + 2 * META_SIZE.
C10_CoalesceThree ==
  AllFreedIntoOne =>
    /\ \A h \in UsedLists : h = growLog[1].addr /\ mem[h] = Spanning
    /\ \A o \in Orders :
         /\ ~FreeAll(o).hang
         /\ FreeAll(o).head = growLog[1].addr
         /\ FreeAll(o).mem = (growLog[1].addr :> Spanning)

\* the three blocks, the middle one larger than the others, are free in one
\* list
C10_Witness == AllFreedIntoOne /\ growLog[2].size > growLog[1].size

\* ---- C9
\* the program of the progress check asks for 0 or MaxSize bytes
FairSizes == {0, MaxSize}

FairNext == \E t \in Threads : CallWith(t, FairSizes) \/ Step(t)

\* every thread goes on with the call it is in; whether an idle thread makes
\* another call is up to the program
FairSpec == Init /\ [][FairNext]_vars /\ \A t \in Threads : WF_vars(Step(t))

Running(t) == pc[t] \notin {"idle", "done"}

\* the positions where a thread waits in pthread_mutex_lock
WaitLabels == {"ml_lock", "fl_lock", "nl_lock"}

\* no list walk runs forever
NoHang == \A t \in Threads : pc[t] # "hung"

\* outside a call a thread holds neither mutex
NoLockAtReturn ==
  \A t \in Threads : ~Running(t) => (lock_mutex # t /\ sbrk_mutex # t)

\* a thread inside a call can take a step, or waits for a mutex whose holder
\* can
NoDeadlock ==
  \A t \in Threads :
    Running(t) =>
      \/ ENABLED Step(t)
      \/ \E u \in Threads \ {t} :
           /\ u \in {lock_mutex, sbrk_mutex}
           /\ ENABLED Step(u)

\* the original statement: under weak fairness every call returns
C9_Original == \A t \in Threads : Running(t) ~> (pc[t] = "done")

\* the positions of a call from which no pthread_mutex_lock lies ahead
PastLock(t) == Running(t) /\ pc[t] \notin WaitLabels \cup {"nl_search"}

\* C9 (amended): under weak fairness of the threads every allocate or free
\* call returns or comes to wait in pthread_mutex_lock; once it has the mutex,
\* or needs none, it returns; and every mutex that is held is released again,
\* so a waiting call returns if the mutex is ever granted to it. The list
\* walks terminate, no reachable state is a deadlock, and a thread holds no
\* lock when a call returns, on every return path.
C9_Progress ==
  /\ \A t \in Threads : Running(t) ~> (pc[t] = "done" \/ pc[t] \in WaitLabels)
  /\ \A t \in Threads : PastLock(t) ~> (pc[t] = "done")
  /\ (lock_mutex # NoThread) ~> (lock_mutex = NoThread)
  /\ (sbrk_mutex # NoThread) ~> (sbrk_mutex = NoThread)
  /\ [](NoHang /\ NoLockAtReturn /\ NoDeadlock)

\* one thread waits for sbrk_mutex while the other has left sbrk and is about
\* to unlock
C9_Witness ==
  \E t, u \in Threads :
    /\ pc[t] = "nl_lock"
    /\ pc[u] = "nl_unlock" /\ sbrk_mutex = u
    /\ block[u] = SBRK_FAIL

\* ---- C11
\* the head of the list that the call of thread t works on
MyList(t) ==
  IF op[t] \in {"ts_malloc_lock", "ts_free_lock"}
  THEN lock_free_list
  ELSE nolock_free_list[t]

\* a search that selects a block of size S for a request N splits it when
\* S >= N + META_SIZE + 1 and leaves it whole when N <= S <= N + META_SIZE
SplitRule ==
  \A t \in Threads :
    SearchHit(t) =>
      LET b == block'[t]
          S == mem[b].size
          N == arg[t]
          r == b + META_SIZE + N
          before == ListSet(MyList(t))
          after == ListSet(MyList(t))'
      IN IF S >= N + META_SIZE + 1
         THEN /\ mem'[b].size = N
              /\ DOMAIN mem' = DOMAIN mem \cup {r}
              /\ r \notin DOMAIN mem
              /\ mem'[r].size = S - N - META_SIZE
              /\ mem'[r].size >= 1
              /\ after = (before \ {b}) \cup {r}
         ELSE /\ N <= S
              /\ S <= N + META_SIZE
              /\ mem'[b].size = S
              /\ DOMAIN mem' = DOMAIN mem
              /\ after = before \ {b}

\* C11: when best-fit search selects a free block of size S for a request of
\* N bytes: if S >= N + META_SIZE + 1 the block is split, the returned block
\* has size N and a remainder of size S - N - META_SIZE (at least 1), whose
\* header starts at the selected block's address + META_SIZE + N, is put back
\* in the free list; if N <= S <= N + META_SIZE the block is not split and no
\* remainder is created.
C11_SplitThreshold == [][SplitRule]_vars

\* one call holds the front of a split block, and another call was handed the
\* remainder whole, because the remainder is exactly META_SIZE larger than its
\* request
C11_Witness ==
  \E t, u \in Threads :
    /\ t # u
    /\ pc[t] = "done" /\ op[t] \in Mallocs /\ ret[t] # NULL
    /\ pc[u] = "done" /\ op[u] \in Mallocs /\ ret[u] # NULL
    /\ {LiveRec(ret[t], mode), LiveRec(ret[u], mode)} \subseteq live
    /\ mem[Header(ret[t])].size = arg[t]
    /\ Header(ret[u]) = Header(ret[t]) + META_SIZE + arg[t]
    /\ mem[Header(ret[u])].size = arg[u] + META_SIZE
    /\ \A i \in 1 .. Len(growLog) : growLog[i].addr # Header(ret[u])

\* ---- C12
\* the program of the wraparound check asks for one byte or for the largest
\* size_t, for which META_SIZE + size wraps to META_SIZE - 1
WrapSizes == {1, SIZE_MOD - 1}

\* the header and the payload of a live block lie between the start of the
\* heap and the break
Usable(r) ==
  /\ HeapBase <= Header(r.ptr)
  /\ r.ptr + mem[Header(r.ptr)].size <= brk

\* what a program does with a block that reaches past the break is undefined:
\* the check follows the program up to the moment it is handed such a block
Intact == \A r \in live : Usable(r)

\* each action of Next, taken while the heap is intact
WrapNext ==
  \E t \in Threads :
    \/ Intact /\ \E size \in WrapSizes : MallocLockCall(t, size)
    \/ Intact /\ \E r \in live \cup {NoRec} : FreeLockCall(t, r)
    \/ Intact /\ \E size \in WrapSizes : MallocNolockCall(t, size)
    \/ Intact /\ \E r \in live \cup {NoRec} : FreeNolockCall(t, r)
    \/ Intact /\ MallocLockAcquire(t)
    \/ Intact /\ MallocLockSearch(t)
    \/ Intact /\ MallocLockHit(t)
    \/ Intact /\ MallocLockSbrkEnter(t)
    \/ Intact /\ MallocLockSbrkExit(t)
    \/ Intact /\ MallocLockGrown(t)
    \/ Intact /\ FreeLockAcquire(t)
    \/ Intact /\ FreeLockInsert(t)
    \/ Intact /\ FreeLockUnlock(t)
    \/ Intact /\ MallocNolockSearch(t)
    \/ Intact /\ MallocNolockAcquire(t)
    \/ Intact /\ MallocNolockSbrkEnter(t)
    \/ Intact /\ MallocNolockSbrkExit(t)
    \/ Intact /\ MallocNolockUnlock(t)
    \/ Intact /\ MallocNolockGrown(t)
    \/ Intact /\ FreeNolockInsert(t)
    \/ Intact /\ Return(t)

WrapSpec == Init /\ [][WrapNext]_vars

\* C12: for every size in 1 .. 2^w - 1 (META_SIZE + size computed modulo 2^w
\* as the code does), a non-null result of allocate(size) on the growth path
\* means that the break advanced by at least META_SIZE + size bytes: the header
\* and the size usable bytes of every block obtained from sbrk lie inside the
\* heap, between its start and the break.
C12_GrowthCoversBlock ==
  \A i \in 1 .. Len(growLog) :
    /\ HeapBase <= growLog[i].addr
    /\ growLog[i].addr + META_SIZE + growLog[i].size <= brk

\* ---- C13
\* the heads of all the free lists
AllLists == {lock_free_list} \cup {nolock_free_list[t] : t \in Threads}

\* the walk from head ends at NULL
Acyclic(head) == Len(ListSeq(head)) < Fuel(mem)

\* for consecutive blocks p -> q of the list, p < q
Ascending(head) ==
  \A i \in 1 .. Len(ListSeq(head)) - 1 : ListSeq(head)[i] < ListSeq(head)[i + 1]

\* C13: after any sequence of allocate and free calls (each completed
\* insert_free_block and best_fit_search, the re-insert of a split remainder
\* included), every free list is acyclic and strictly address-ascending: for
\* consecutive blocks p -> q of a list, address(p) < address(q).
C13_AddressOrder == \A h \in AllLists : Acyclic(h) /\ Ascending(h)

\* a free call has put its block at the head of a list, in front of a block
\* that was freed earlier and lies at a higher address
C13_Witness ==
  \E t \in Threads :
    /\ pc[t] = "done" /\ op[t] \in Frees /\ arg[t] # NULL
    /\ MyList(t) = Header(arg[t])
    /\ mem[MyList(t)].next # NULL

\* ---- C14
\* p ends where q begins
Adjacent(p, q) == p + META_SIZE + mem[p].size = q

\* C14: at the end of every insert_free_block call and of every
\* best_fit_search call (a splitting one included), no two blocks of the same
\* free list are physically adjacent: the list holds no p, q with
\* address(p) + META_SIZE + size(p) = address(q).
C14_NoAdjacentFree ==
  \A h \in AllLists : \A p, q \in ListSet(h) : ~Adjacent(p, q)

\* a free call has merged its block into the block before it, and the block
\* that follows the merged one in memory is free too, in the list of another
\* thread
C14_Witness ==
  \E t, u \in Threads :
    /\ t # u
    /\ pc[t] = "done" /\ op[t] \in Frees /\ arg[t] # NULL
    /\ Header(arg[t]) \notin DOMAIN mem
    /\ \E p \in ListSet(MyList(t)) :
         /\ Header(arg[t]) \in BlockRange(mem, p)
         /\ \E q \in ListSet(nolock_free_list[u]) : Adjacent(p, q)

\* ---- C15
\* the blocks of all the free lists
FreeHeaders == UNION {ListSet(h) : h \in AllLists}

\* the lists that hold block a: the shared one (0) or the one of a thread
ListsWith(a) ==
  {i \in {0} \cup Threads :
     a \in ListSet(IF i = 0 THEN lock_free_list ELSE nolock_free_list[i])}

\* no header occurs twice on the walk from head
OnceInList(head) == Cardinality(ListSet(head)) = Len(ListSeq(head))

\* the bytes of block a lie between the start of the heap and the break
InsideHeap(a) == HeapBase <= a /\ a + META_SIZE + mem[a].size <= brk

\* the blocks on their way between a caller and a list: handed to a free call
\* that has not inserted them yet, or picked by a search that has not returned
\* them yet. They are in no list, and count as live.
Passing ==
  {block[t] : t \in {u \in Threads :
                       pc[u] \in {"fl_lock", "fl_insert", "nf_insert", "ml_hit"}}}

\* C15: in every reachable state of either variant the byte ranges of all live
\* blocks and of all blocks of every free list (the shared list, or all the
\* per-thread lists) are pairwise disjoint and lie inside the heap obtained so
\* far; no block is live and in a free list at the same time, and no block is
\* in a list twice or in two lists.
C15_LiveFreeDisjoint ==
  /\ (LiveHeaders \cup Passing) \cap FreeHeaders = {}
  /\ \A a \in FreeHeaders : Cardinality(ListsWith(a)) = 1
  /\ \A h \in AllLists : OnceInList(h)
  /\ \A a \in LiveHeaders \cup Passing \cup FreeHeaders : InsideHeap(a)
  /\ \A a, b \in LiveHeaders \cup Passing \cup FreeHeaders :
       a # b => BlockRange(mem, a) \cap BlockRange(mem, b) = {}

\* one thread holds the front of a block it has just split off its own list,
\* the remainder is back in that list, and the list of the other thread holds
\* a block as well
C15_Witness ==
  \E t, u \in Threads :
    /\ t # u
    /\ pc[t] = "done" /\ op[t] = "ts_malloc_nolock" /\ ret[t] # NULL
    /\ LiveRec(ret[t], "nolock") \in live
    /\ ret[t] + arg[t] \in ListSet(nolock_free_list[t])
    /\ nolock_free_list[u] # NULL

\* ---- C16
\* thread t runs best_fit_search in this step
SearchStep(t) ==
  /\ Stepped(t)
  /\ pc[t] \in {"ml_search", "nl_search"}
  /\ pc'[t] # "hung"

\* the blocks of the list of thread t that are large enough for its request
Fits(t) == {a \in ListSet(MyList(t)) : mem[a].size >= arg[t]}

\* what a scan of the whole list picks: among the blocks of the smallest size
\* that is large enough, the one at the lowest address
FullScanPick(t) ==
  CHOOSE a \in Fits(t) :
    \A b \in Fits(t) :
      \/ mem[a].size < mem[b].size
      \/ mem[a].size = mem[b].size /\ a <= b

BestFitRule ==
  \A t \in Threads :
    SearchStep(t) =>
      IF Fits(t) = {}
      THEN /\ block'[t] = NULL
           /\ UNCHANGED heap
      ELSE /\ block'[t] = FullScanPick(t)
           /\ block'[t] \notin ListSet(MyList(t))'

\* C16: best_fit_search(head, n) returns not-found exactly when no block of
\* the list has size >= n; otherwise the block it unlinks is the one a full
\* scan would pick: the lowest-address block among those whose size is the
\* minimum of all sizes >= n. The early exit on a perfect fit never changes
\* which block is chosen.
C16_BestFitChoice == [][BestFitRule]_vars

\* a search under the lock has just picked a block larger than its request
\* while a block of the same size stays in the list at a higher address
C16_Witness ==
  \E t \in Threads :
    /\ pc[t] = "ml_hit"
    /\ mem[block[t]].size > arg[t]
    /\ \E c \in ListSet(lock_free_list) :
         /\ c > block[t]
         /\ mem[c].size = mem[block[t]].size

\* ---- C17
\* thread t comes out of sbrk in this step
GrowStep(t) == Stepped(t) /\ pc[t] \in {"ml_insbrk", "nl_insbrk"}

\* the break moves only in the sbrk of an allocate call, and then by
\* META_SIZE + size
BreakOnlyInSbrk ==
  brk' # brk =>
    \E t \in Threads :
      /\ GrowStep(t)
      /\ op[t] \in Mallocs
      /\ brk' = brk + META_SIZE + arg[t]

\* a search goes on to sbrk exactly when no block of the list is large enough
MissIffGrow ==
  \A t \in Threads :
    SearchStep(t) =>
      /\ Fits(t) = {} <=> pc'[t] \in {"ml_sbrk", "nl_lock"}
      /\ Fits(t) # {} <=> pc'[t] \in {"ml_hit", "done"}

\* the way of a call to sbrk and on to its return: one sbrk per miss, none
\* otherwise
OncePerCall ==
  \A t \in Threads :
    Stepped(t) =>
      /\ pc'[t] = "ml_sbrk" => pc[t] = "ml_search"
      /\ pc'[t] = "nl_lock" => pc[t] = "nl_search"
      /\ pc'[t] = "nl_sbrk" => pc[t] = "nl_lock"
      /\ pc'[t] = "ml_insbrk" => pc[t] = "ml_sbrk"
      /\ pc'[t] = "nl_insbrk" => pc[t] = "nl_sbrk"
      /\ pc[t] = "ml_sbrk" => pc'[t] = "ml_insbrk"
      /\ pc[t] = "nl_sbrk" => pc'[t] = "nl_insbrk"
      /\ pc[t] = "ml_insbrk" => pc'[t] = "ml_check"
      /\ pc[t] = "nl_insbrk" => pc'[t] = "nl_unlock"
      /\ pc[t] = "nl_unlock" => pc'[t] = "nl_check"
      /\ pc[t] \in {"ml_check", "nl_check"} => pc'[t] = "done"

\* the sbrk of a call that missed advances the break
MissAdvances ==
  \A t \in Threads : GrowStep(t) => brk' = brk + META_SIZE + arg[t]

\* the original statement: the break advances if and only if the list holds
\* no block that is large enough
C17_Original == [][BreakOnlyInSbrk /\ MissIffGrow /\ OncePerCall /\ MissAdvances]_vars

\* the sbrk of a call that missed advances the break by META_SIZE + size and
\* returns the old break, or fails and leaves the break where it is
MissAdvancesOrFails ==
  \A t \in Threads :
    GrowStep(t) =>
      \/ /\ brk' = brk + META_SIZE + arg[t]
         /\ block'[t] = brk
      \/ /\ brk' = brk
         /\ block'[t] = SBRK_FAIL
         /\ brk + META_SIZE + arg[t] > HeapLimit

\* C17 (amended): in both variants allocate(size) with size > 0 calls sbrk if
\* and only if the relevant free list holds no block with size >= the request,
\* and then exactly once; the break advances, by exactly META_SIZE + size, if
\* and only if that call of sbrk succeeds, and stays where it is when sbrk
\* fails; no free call ever changes the break.
C17_BreakAdvance ==
  [][BreakOnlyInSbrk /\ MissIffGrow /\ OncePerCall /\ MissAdvancesOrFails]_vars

\* a call has advanced the break although its list holds a block, too small
\* for the request
C17_Witness ==
  \E t \in Threads :
    /\ pc[t] \in {"ml_check", "nl_unlock"}
    /\ block[t] # SBRK_FAIL
    /\ brk = block[t] + META_SIZE + arg[t]
    /\ MyList(t) # NULL
    /\ \A a \in ListSet(MyList(t)) : mem[a].size < arg[t]

\* ---- C18
\* thread t runs the insert_free_block of its free call in this step
InsertStep(t) ==
  /\ Stepped(t)
  /\ pc[t] \in {"fl_insert", "nf_insert"}
  /\ pc'[t] # "hung"

\* the blocks of the list of thread t that end where the block it frees begins
PrevAdjacent(t) == {p \in ListSet(MyList(t)) : Adjacent(p, block[t])}

\* the blocks of the list of thread t that begin where the block it frees ends
NextAdjacent(t) == {q \in ListSet(MyList(t)) : Adjacent(block[t], q)}

MyLen(t) == Len(ListSeq(MyList(t)))

InsertLength ==
  \A t \in Threads :
    InsertStep(t) =>
      /\ MyLen(t)' = MyLen(t) + 1 - Cardinality(PrevAdjacent(t))
                                  - Cardinality(NextAdjacent(t))
      /\ MyLen(t)' <= MyLen(t) + 1
      /\ Cardinality(PrevAdjacent(t)) <= 1
      /\ Cardinality(NextAdjacent(t)) <= 1
      /\ (PrevAdjacent(t) # {} /\ NextAdjacent(t) # {}) =>
           \A p \in PrevAdjacent(t) : \A q \in NextAdjacent(t) :
             /\ p \in ListSet(MyList(t))'
             /\ block[t] \notin ListSet(MyList(t))'
             /\ q \notin ListSet(MyList(t))'
             /\ mem'[p].size = mem[p].size + META_SIZE + mem[block[t]].size
                                 + META_SIZE + mem[q].size

\* the insert_free_block inside a splitting search: the list has lost the
\* selected block and takes the remainder, which has no neighbour to merge
\* with, so that the search leaves the length as it was
RemainderLength ==
  \A t \in Threads :
    (SearchHit(t) /\ mem'[block'[t]].size < mem[block'[t]].size) =>
      MyLen(t)' = MyLen(t)

\* C18: an insert_free_block call on a list of length n leaves a list of
\* length n + 1 when no neighbour is adjacent, n when exactly one of the
\* forward and backward merges happens, and n - 1 when both happen; the length
\* never exceeds n + 1, and when both merges happen the surviving block is the
\* predecessor, with size prev + META_SIZE + block + META_SIZE + next.
C18_InsertLength == [][InsertLength /\ RemainderLength]_vars

\* blocks of sizes 1, 2, 1 came from sbrk back to back; a free call that still
\* holds the lock has inserted the middle one and the list is one block that
\* spans the three: the insert merged forward and backward
C18_Witness ==
  /\ ThreeGrown
  /\ growLog[1].size = 1 /\ growLog[2].size = 2 /\ growLog[3].size = 1
  /\ \E t \in Threads :
       /\ pc[t] = "fl_unlock"
       /\ block[t] = growLog[2].addr
       /\ lock_free_list = growLog[1].addr
       /\ mem[lock_free_list] = Spanning

\* ---- C19
\* one process uses both variants: some calls go to the locking entry points,
\* others to the thread-local ones, each pointer freed by its own variant
MixedInit == mode = "mixed" /\ InitCommon

\* the threads inside sbrk
InSbrk == {t \in Threads : pc[t] \in {"ml_insbrk", "nl_insbrk"}}

\* sbrk is not safe to call from two threads at once: the check follows the
\* program up to the moment two threads are inside it
Serial == Cardinality(InSbrk) <= 1

\* the program of the mixed check asks for 0 or MaxSize bytes
MixedSizes == {0, MaxSize}

\* each action of Next, taken while sbrk is not entered twice
MixedNext ==
  \E t \in Threads :
    \/ Serial /\ \E size \in MixedSizes : MallocLockCall(t, size)
    \/ Serial /\ \E r \in live \cup {NoRec} : FreeLockCall(t, r)
    \/ Serial /\ \E size \in MixedSizes : MallocNolockCall(t, size)
    \/ Serial /\ \E r \in live \cup {NoRec} : FreeNolockCall(t, r)
    \/ Serial /\ MallocLockAcquire(t)
    \/ Serial /\ MallocLockSearch(t)
    \/ Serial /\ MallocLockHit(t)
    \/ Serial /\ MallocLockSbrkEnter(t)
    \/ Serial /\ MallocLockSbrkExit(t)
    \/ Serial /\ MallocLockGrown(t)
    \/ Serial /\ FreeLockAcquire(t)
    \/ Serial /\ FreeLockInsert(t)
    \/ Serial /\ FreeLockUnlock(t)
    \/ Serial /\ MallocNolockSearch(t)
    \/ Serial /\ MallocNolockAcquire(t)
    \/ Serial /\ MallocNolockSbrkEnter(t)
    \/ Serial /\ MallocNolockSbrkExit(t)
    \/ Serial /\ MallocNolockUnlock(t)
    \/ Serial /\ MallocNolockGrown(t)
    \/ Serial /\ FreeNolockInsert(t)
    \/ Serial /\ Return(t)

MixedSpec == MixedInit /\ [][MixedNext]_vars

\* C19: when one process has threads calling ts_malloc_lock and threads
\* calling ts_malloc_nolock concurrently (each pointer still freed by its own
\* variant), at most one thread is inside sbrk at any time.
C19_OneInSbrk == Cardinality(InSbrk) <= 1

\* ---- C20
\* the blocks of the free calls that wait for lock_mutex: handed back by the
\* caller, not yet in the list
PendingFree == {block[t] : t \in {u \in Threads : pc[u] = "fl_lock"}}

\* the bytes of the blocks with headers in S, headers included
RECURSIVE SumBytes(_)
SumBytes(S) ==
  IF S = {} THEN 0
  ELSE LET a == CHOOSE x \in S : TRUE
       IN META_SIZE + mem[a].size + SumBytes(S \ {a})

\* C20: in the locking variant, whenever lock_mutex is not held, the heap
\* bytes obtained so far are exactly partitioned by the live blocks and the
\* blocks of the shared free list: the sum of META_SIZE + size over all live
\* and free blocks equals the number of bytes by which the break has advanced,
\* so no split or merge loses or double-counts a byte. A block whose free call
\* still waits for the lock counts as live: it becomes free with the insert.
C20_BytesPartition ==
  (mode = "lock" /\ lock_mutex = NoThread) =>
    /\ (LiveHeaders \cup PendingFree) \cap ListSet(lock_free_list) = {}
    /\ SumBytes(LiveHeaders \cup PendingFree) + SumBytes(ListSet(lock_free_list))
         = brk - HeapBase

\* the lock is free; a block is live, another waits to be freed, and the list
\* holds the remainder of a split
C20_Witness ==
  /\ mode = "lock"
  /\ lock_mutex = NoThread
  /\ live # {}
  /\ \E t \in Threads : pc[t] = "fl_lock"
  /\ \E a \in ListSet(lock_free_list) :
       \A i \in 1 .. Len(growLog) : growLog[i].addr # a

====
